---- MODULE Spec2Model ----
(***************************************************************************)
(* Model of ScenarioManager/atomic_scenario_behavior.py: the nine py_trees *)
(* leaf behaviours (six conditions, three actions) and the vehicles they   *)
(* read from and command.                                                  *)
(*                                                                         *)
(* Units.  Python floats are modelled by exact integers: lengths in mm,    *)
(* speeds in mm/s, times in s, throttle and brake in 1/1000 of full scale. *)
(* So EPSILON = 0.001 m/s is 1, throttle 1.0 is 1000, and a quotient       *)
(* distance / velocity is a number of seconds, kept as an exact fraction.  *)
(***************************************************************************)
EXTENDS Integers, FiniteSets, Sequences, TLC

\* ------------------------------------------------------------------ bounds
MaxPos == 2         \* vehicles and target locations sit at Pos(0)..Pos(MaxPos)
MaxSpeed == 1       \* axis-aligned velocities 0..MaxSpeed, plus the fixed ones
MaxStep == 2        \* speed gained per simulation step under throttle: 1..MaxStep

\* ------------------------------------------------------- program constants
EPSILON == 1                        \* EPSILON = 0.001
max_time_to_arrival == 10000        \* class attribute of both time-to-arrival nodes
FullThrottle == 1000                \* self.control.throttle = 1.0 in KeepVelocity

RUNNING == "RUNNING"
SUCCESS == "SUCCESS"
FAILURE == "FAILURE"
INVALID == "INVALID"
Status == {INVALID, RUNNING, SUCCESS, FAILURE}

\* --------------------------------------------------------------- the world
Vehicles == {"ego", "other"}

\* Locations lie on the line through (0,0) and (3,4), so that every distance
\* between two of them is an exact integer (a multiple of 5).
Pos(i) == [x |-> 3 * i, y |-> 4 * i]
Locations == {Pos(i) : i \in 0..MaxPos}

\* Velocity vectors with an exact horizontal norm: speeds 0..MaxSpeed, and 5
\* for a vehicle that also moves vertically (z is not read by
\* calculate_velocity; the norm with z would be 13).
Velocities == {[x |-> 0, y |-> v, z |-> 0] : v \in 0..MaxSpeed}
              \cup {[x |-> 3, y |-> 4, z |-> 12]}

\* carla.VehicleControl(): the fields this module writes, at their defaults
VehicleControl == [throttle |-> 0, brake |-> 0]

\* constructor arguments the scenarios are built with
MinXs == {1, 3, 4}
MaxXs == {3, 5}
MinYs == {1, 4}
MaxYs == {3, 4, 7}
Distances == {0, 5, 7}
TargetVelocities == {0, 1, 3, 5}
Times == {0, 1, 5, 25, 10000}
Magnitudes == {500, 1500}

VARIABLES
    location,   \* vehicle.get_location() of every vehicle
    velocity,   \* vehicle.get_velocity() of every vehicle
    applied,    \* the control last passed to vehicle.apply_control()
    node,       \* the leaf behaviour: its class, constructor fields, control
    op,         \* the method called on the node in this simulation step
    ret,        \* what that call returned
    arg,        \* the new_status handed to terminate()
    before,     \* applied, as it was when that call started
    last,       \* status and commands of the latest update() since the world
                \* changed; again: the call just made repeated an update()
    napply,     \* number of apply_control() calls that call made
    ncontrol,   \* number of carla.VehicleControl() objects the node has created
    step        \* speed the vehicle gains per simulation step under throttle

vars == <<location, velocity, applied, node, op, ret, arg, before,
          last, napply, ncontrol, step>>

\* ----------------------------------------------------------------- helpers
\* math.sqrt, on the perfect squares the world produces
Sqrt(n) == CHOOSE r \in 0..n : r * r = n

\* location.distance(other_location): Euclidean distance
calculate_distance(loc, other_location) ==
    Sqrt((loc.x - other_location.x) * (loc.x - other_location.x)
         + (loc.y - other_location.y) * (loc.y - other_location.y))

calculate_velocity(vehicle) ==
    LET velocity_squared == velocity[vehicle].x * velocity[vehicle].x
                            + velocity[vehicle].y * velocity[vehicle].y
    IN  Sqrt(velocity_squared)

\* a / b as an exact fraction (b > 0), and its comparison with an integer
Quotient(a, b) == [num |-> a, den |-> b]
Greater(q, t) == q.num > t * q.den

\* vehicle.apply_control(control)
apply_control(vehicle, control) == [applied EXCEPT ![vehicle] = control]

\* ------------------------------------------------------------ constructors
InTriggerRegion_init(vehicle, min_x, max_x, min_y, max_y) ==
    [cls |-> "InTriggerRegion", vehicle |-> vehicle,
     min_x |-> min_x, max_x |-> max_x, min_y |-> min_y, max_y |-> max_y]

InTriggerDistanceToVehicle_init(other_vehicle, ego_vehicle, distance) ==
    [cls |-> "InTriggerDistanceToVehicle", other_vehicle |-> other_vehicle,
     ego_vehicle |-> ego_vehicle, distance |-> distance]

InTriggerDistanceToLocation_init(vehicle, target_location, distance) ==
    [cls |-> "InTriggerDistanceToLocation", target_location |-> target_location,
     vehicle |-> vehicle, distance |-> distance]

TriggerVelocity_init(vehicle, target_velocity) ==
    [cls |-> "TriggerVelocity", vehicle |-> vehicle,
     target_velocity |-> target_velocity]

InTimeToArrivalToLocation_init(vehicle, time, loc) ==
    [cls |-> "InTimeToArrivalToLocation", vehicle |-> vehicle,
     time |-> time, target_location |-> loc]

InTimeToArrivalToVehicle_init(other_vehicle, ego_vehicle, time) ==
    [cls |-> "InTimeToArrivalToVehicle", other_vehicle |-> other_vehicle,
     ego_vehicle |-> ego_vehicle, time |-> time]

AccelerateToVelocity_init(vehicle, throttle_value, target_velocity) ==
    [cls |-> "AccelerateToVelocity", control |-> VehicleControl,
     vehicle |-> vehicle, throttle_value |-> throttle_value,
     target_velocity |-> target_velocity]

KeepVelocity_init(vehicle, target_velocity) ==
    [cls |-> "KeepVelocity", control |-> VehicleControl,
     vehicle |-> vehicle, target_velocity |-> target_velocity]

StopVehicle_init(vehicle, brake_value) ==
    [cls |-> "StopVehicle", control |-> VehicleControl,
     vehicle |-> vehicle, brake_value |-> brake_value]

Conditions == {"InTriggerRegion", "InTriggerDistanceToVehicle",
               "InTriggerDistanceToLocation", "TriggerVelocity",
               "InTimeToArrivalToLocation", "InTimeToArrivalToVehicle"}
Actions == {"AccelerateToVelocity", "KeepVelocity", "StopVehicle"}

\* every node a scenario can construct from the arguments above
Nodes ==
    {InTriggerRegion_init(v, a, b, c, d) :
        v \in Vehicles, a \in MinXs, b \in MaxXs, c \in MinYs, d \in MaxYs}
    \cup {InTriggerDistanceToVehicle_init(o, e, d) :
        o \in Vehicles, e \in Vehicles, d \in Distances}
    \cup {InTriggerDistanceToLocation_init(v, l, d) :
        v \in Vehicles, l \in Locations, d \in Distances}
    \cup {TriggerVelocity_init(v, t) : v \in Vehicles, t \in TargetVelocities}
    \cup {InTimeToArrivalToLocation_init(v, t, l) :
        v \in Vehicles, t \in Times, l \in Locations}
    \cup {InTimeToArrivalToVehicle_init(o, e, t) :
        o \in Vehicles, e \in Vehicles, t \in Times}
    \cup {AccelerateToVelocity_init(v, m, t) :
        v \in Vehicles, m \in Magnitudes, t \in TargetVelocities}
    \cup {KeepVelocity_init(v, t) : v \in Vehicles, t \in TargetVelocities}
    \cup {StopVehicle_init(v, m) : v \in Vehicles, m \in Magnitudes}

\* no update() has been called since the world last changed
NoUpdate == [ret |-> "None", applied |-> [v \in Vehicles |-> VehicleControl],
             again |-> FALSE]

\* -------------------------------------------------------------------- Init
Init ==
    /\ location \in [Vehicles -> Locations]
    /\ velocity \in [Vehicles -> Velocities]
    /\ applied = [v \in Vehicles |-> VehicleControl]
    /\ node \in Nodes
    /\ op = "__init__"
    /\ ret = "None"
    /\ arg = "None"
    /\ before = applied
    /\ last = NoUpdate
    /\ napply = 0
    /\ ncontrol = IF node.cls \in Actions THEN 1 ELSE 0
    /\ step = 0

\* what every call records about itself; no method creates a control object
Called(name, result, new_status) ==
    /\ op' = name
    /\ ret' = result
    /\ arg' = new_status
    /\ before' = applied
    /\ last' = IF name = "update"
               THEN [ret |-> result, applied |-> applied',
                     again |-> last.ret # "None"]
               ELSE [last EXCEPT !.again = FALSE]
    /\ UNCHANGED <<ncontrol, step>>

\* a method that only writes a debug line
LogOnly(name, result, new_status) ==
    /\ UNCHANGED <<location, velocity, applied, node>>
    /\ napply' = 0
    /\ Called(name, result, new_status)

\* The simulation advances one step: a vehicle moves or changes its velocity.
\* The commanded control stays as the last apply_control() left it.
WorldTick ==
    /\ \E v \in Vehicles :
          \/ /\ \E l \in Locations : location' = [location EXCEPT ![v] = l]
             /\ UNCHANGED velocity
          \/ /\ \E w \in Velocities : velocity' = [velocity EXCEPT ![v] = w]
             /\ UNCHANGED location
    /\ op' = "none"
    /\ ret' = "None"
    /\ arg' = "None"
    /\ before' = applied
    /\ last' = NoUpdate
    /\ napply' = 0
    /\ UNCHANGED <<applied, node, ncontrol, step>>

\* --------------------------------------------------------- InTriggerRegion
InTriggerRegion_setup ==
    /\ node.cls = "InTriggerRegion"
    /\ LogOnly("setup", "True", "None")

InTriggerRegion_initialise ==
    /\ node.cls = "InTriggerRegion"
    /\ LogOnly("initialise", "None", "None")

\* the region test with a FAILURE result outside the rectangle
InTriggerRegion_new_status_failure(self) ==
    LET loc == location[self.vehicle]
        not_in_region == (loc.x < self.min_x \/ loc.x > self.max_x)
                         \/ (loc.y < self.min_y \/ loc.y > self.max_y)
    IN  IF not_in_region THEN FAILURE ELSE SUCCESS

\* the region test with exclusive bounds
InTriggerRegion_new_status_exclusive(self) ==
    LET loc == location[self.vehicle]
        not_in_region == (loc.x <= self.min_x \/ loc.x >= self.max_x)
                         \/ (loc.y <= self.min_y \/ loc.y >= self.max_y)
    IN  IF not_in_region THEN RUNNING ELSE SUCCESS

InTriggerRegion_new_status(self) ==
    LET loc == location[self.vehicle]
        not_in_region == (loc.x < self.min_x \/ loc.x > self.max_x)
                         \/ (loc.y < self.min_y \/ loc.y > self.max_y)
    IN  IF not_in_region THEN RUNNING ELSE SUCCESS

InTriggerRegion_update ==
    /\ node.cls = "InTriggerRegion"
    /\ LogOnly("update", InTriggerRegion_new_status(node), "None")

InTriggerRegion_terminate(new_status) ==
    /\ node.cls = "InTriggerRegion"
    /\ LogOnly("terminate", "None", new_status)

\* ---------------------------------------------- InTriggerDistanceToVehicle
InTriggerDistanceToVehicle_setup ==
    /\ node.cls = "InTriggerDistanceToVehicle"
    /\ LogOnly("setup", "True", "None")

InTriggerDistanceToVehicle_initialise ==
    /\ node.cls = "InTriggerDistanceToVehicle"
    /\ LogOnly("initialise", "None", "None")

\* the distance test with an exclusive threshold
InTriggerDistanceToVehicle_new_status_exclusive(self) ==
    LET ego_location == location[self.ego_vehicle]
        other_location == location[self.other_vehicle]
    IN  IF calculate_distance(ego_location, other_location) >= self.distance
        THEN RUNNING
        ELSE SUCCESS

InTriggerDistanceToVehicle_new_status(self) ==
    LET ego_location == location[self.ego_vehicle]
        other_location == location[self.other_vehicle]
    IN  IF calculate_distance(ego_location, other_location) > self.distance
        THEN RUNNING
        ELSE SUCCESS

InTriggerDistanceToVehicle_update ==
    /\ node.cls = "InTriggerDistanceToVehicle"
    /\ LogOnly("update", InTriggerDistanceToVehicle_new_status(node), "None")

InTriggerDistanceToVehicle_terminate(new_status) ==
    /\ node.cls = "InTriggerDistanceToVehicle"
    /\ LogOnly("terminate", "None", new_status)

\* --------------------------------------------- InTriggerDistanceToLocation
InTriggerDistanceToLocation_setup ==
    /\ node.cls = "InTriggerDistanceToLocation"
    /\ LogOnly("setup", "True", "None")

InTriggerDistanceToLocation_initialise ==
    /\ node.cls = "InTriggerDistanceToLocation"
    /\ LogOnly("initialise", "None", "None")

InTriggerDistanceToLocation_new_status(self) ==
    LET loc == location[self.vehicle]
    IN  IF calculate_distance(loc, self.target_location) > self.distance
        THEN RUNNING
        ELSE SUCCESS

InTriggerDistanceToLocation_update ==
    /\ node.cls = "InTriggerDistanceToLocation"
    /\ LogOnly("update", InTriggerDistanceToLocation_new_status(node), "None")

InTriggerDistanceToLocation_terminate(new_status) ==
    /\ node.cls = "InTriggerDistanceToLocation"
    /\ LogOnly("terminate", "None", new_status)

\* --------------------------------------------------------- TriggerVelocity
TriggerVelocity_setup ==
    /\ node.cls = "TriggerVelocity"
    /\ LogOnly("setup", "True", "None")

TriggerVelocity_initialise ==
    /\ node.cls = "TriggerVelocity"
    /\ LogOnly("initialise", "None", "None")

\* the velocity test with the tolerance itself included
TriggerVelocity_new_status_inclusive(self) ==
    IF (calculate_velocity(self.vehicle) - self.target_velocity) <= EPSILON
    THEN SUCCESS
    ELSE RUNNING

TriggerVelocity_new_status(self) ==
    IF (calculate_velocity(self.vehicle) - self.target_velocity) < EPSILON
    THEN SUCCESS
    ELSE RUNNING

TriggerVelocity_update ==
    /\ node.cls = "TriggerVelocity"
    /\ LogOnly("update", TriggerVelocity_new_status(node), "None")

TriggerVelocity_terminate(new_status) ==
    /\ node.cls = "TriggerVelocity"
    /\ LogOnly("terminate", "None", new_status)

\* ----------------------------------------------- InTimeToArrivalToLocation
InTimeToArrivalToLocation_setup ==
    /\ node.cls = "InTimeToArrivalToLocation"
    /\ LogOnly("setup", "True", "None")

InTimeToArrivalToLocation_initialise ==
    /\ node.cls = "InTimeToArrivalToLocation"
    /\ LogOnly("initialise", "None", "None")

\* the arrival test that divides whenever the velocity is not exactly zero
InTimeToArrivalToLocation_new_status_zero_guard(self) ==
    LET current_location == location[self.vehicle]
        distance == calculate_distance(current_location, self.target_location)
        vel == calculate_velocity(self.vehicle)
        time_to_arrival == IF vel > 0
                           THEN Quotient(distance, vel)
                           ELSE Quotient(max_time_to_arrival, 1)
    IN  IF Greater(time_to_arrival, self.time) THEN RUNNING ELSE SUCCESS

InTimeToArrivalToLocation_new_status(self) ==
    LET current_location == location[self.vehicle]
        distance == calculate_distance(current_location, self.target_location)
        vel == calculate_velocity(self.vehicle)
        \* if velocity is too small, simply use a large time to arrival
        time_to_arrival == IF vel > EPSILON
                           THEN Quotient(distance, vel)
                           ELSE Quotient(max_time_to_arrival, 1)
    IN  IF Greater(time_to_arrival, self.time) THEN RUNNING ELSE SUCCESS

\* update() that keeps the sentinel in self.time instead of a local variable
InTimeToArrivalToLocation_update_store ==
    /\ node.cls = "InTimeToArrivalToLocation"
    /\ node' = IF calculate_velocity(node.vehicle) > EPSILON
               THEN node
               ELSE [node EXCEPT !.time = max_time_to_arrival]
    /\ UNCHANGED <<location, velocity, applied>>
    /\ napply' = 0
    /\ Called("update", InTimeToArrivalToLocation_new_status(node), "None")

InTimeToArrivalToLocation_update ==
    /\ node.cls = "InTimeToArrivalToLocation"
    /\ LogOnly("update", InTimeToArrivalToLocation_new_status(node), "None")

InTimeToArrivalToLocation_terminate(new_status) ==
    /\ node.cls = "InTimeToArrivalToLocation"
    /\ LogOnly("terminate", "None", new_status)

\* ------------------------------------------------ InTimeToArrivalToVehicle
InTimeToArrivalToVehicle_setup ==
    /\ node.cls = "InTimeToArrivalToVehicle"
    /\ LogOnly("setup", "True", "None")

InTimeToArrivalToVehicle_initialise ==
    /\ node.cls = "InTimeToArrivalToVehicle"
    /\ LogOnly("initialise", "None", "None")

\* the closing-time test on the magnitude of the speed difference
InTimeToArrivalToVehicle_new_status_abs(self) ==
    LET current_location == location[self.ego_vehicle]
        target_location == location[self.other_vehicle]
        distance == calculate_distance(current_location, target_location)
        current_velocity == calculate_velocity(self.ego_vehicle)
        other_velocity == calculate_velocity(self.other_vehicle)
        time_to_arrival ==
            IF current_velocity > other_velocity
            THEN Quotient(2 * distance, current_velocity - other_velocity)
            ELSE IF current_velocity < other_velocity
            THEN Quotient(2 * distance, other_velocity - current_velocity)
            ELSE Quotient(max_time_to_arrival, 1)
    IN  IF Greater(time_to_arrival, self.time) THEN RUNNING ELSE SUCCESS

\* the closing-time test without the factor 2
InTimeToArrivalToVehicle_new_status_no_factor(self) ==
    LET current_location == location[self.ego_vehicle]
        target_location == location[self.other_vehicle]
        distance == calculate_distance(current_location, target_location)
        current_velocity == calculate_velocity(self.ego_vehicle)
        other_velocity == calculate_velocity(self.other_vehicle)
        time_to_arrival ==
            IF current_velocity > other_velocity
            THEN Quotient(distance, current_velocity - other_velocity)
            ELSE Quotient(max_time_to_arrival, 1)
    IN  IF Greater(time_to_arrival, self.time) THEN RUNNING ELSE SUCCESS

InTimeToArrivalToVehicle_new_status(self) ==
    LET current_location == location[self.ego_vehicle]
        target_location == location[self.other_vehicle]
        distance == calculate_distance(current_location, target_location)
        current_velocity == calculate_velocity(self.ego_vehicle)
        other_velocity == calculate_velocity(self.other_vehicle)
        \* if velocity is too small, simply use a large time to arrival
        time_to_arrival ==
            IF current_velocity > other_velocity
            THEN Quotient(2 * distance, current_velocity - other_velocity)
            ELSE Quotient(max_time_to_arrival, 1)
    IN  IF Greater(time_to_arrival, self.time) THEN RUNNING ELSE SUCCESS

InTimeToArrivalToVehicle_update ==
    /\ node.cls = "InTimeToArrivalToVehicle"
    /\ LogOnly("update", InTimeToArrivalToVehicle_new_status(node), "None")

InTimeToArrivalToVehicle_terminate(new_status) ==
    /\ node.cls = "InTimeToArrivalToVehicle"
    /\ LogOnly("terminate", "None", new_status)

\* ---------------------------------------------------- AccelerateToVelocity
AccelerateToVelocity_setup ==
    /\ node.cls = "AccelerateToVelocity"
    /\ LogOnly("setup", "True", "None")

AccelerateToVelocity_initialise ==
    /\ node.cls = "AccelerateToVelocity"
    /\ LogOnly("initialise", "None", "None")

\* update() that leaves the throttle as it is once the target is reached
AccelerateToVelocity_update_no_reset ==
    LET below == calculate_velocity(node.vehicle) < node.target_velocity
        new_status == IF below THEN RUNNING ELSE SUCCESS
        control == IF below
                   THEN [node.control EXCEPT !.throttle = node.throttle_value]
                   ELSE node.control
    IN  /\ node.cls = "AccelerateToVelocity"
        /\ node' = [node EXCEPT !.control = control]
        /\ applied' = apply_control(node.vehicle, control)
        /\ napply' = 1
        /\ Called("update", new_status, "None")
        /\ UNCHANGED <<location, velocity>>

\* update() that ramps the throttle up by half of full scale per tick
AccelerateToVelocity_update_ramp ==
    LET below == calculate_velocity(node.vehicle) < node.target_velocity
        new_status == IF below THEN RUNNING ELSE SUCCESS
        ramped == node.control.throttle + 500
        control == [node.control EXCEPT
                        !.throttle = IF below
                                     THEN IF ramped < node.throttle_value
                                          THEN ramped
                                          ELSE node.throttle_value
                                     ELSE 0]
    IN  /\ node.cls = "AccelerateToVelocity"
        /\ node' = [node EXCEPT !.control = control]
        /\ applied' = apply_control(node.vehicle, control)
        /\ napply' = 1
        /\ Called("update", new_status, "None")
        /\ UNCHANGED <<location, velocity>>

\* update() that adds throttle_value to the throttle instead of setting it
AccelerateToVelocity_update_accumulate ==
    LET below == calculate_velocity(node.vehicle) < node.target_velocity
        new_status == IF below THEN RUNNING ELSE SUCCESS
        control == [node.control EXCEPT
                        !.throttle = IF below
                                     THEN node.control.throttle + node.throttle_value
                                     ELSE 0]
    IN  /\ node.cls = "AccelerateToVelocity"
        /\ node' = [node EXCEPT !.control = control]
        /\ applied' = apply_control(node.vehicle, control)
        /\ napply' = 1
        /\ Called("update", new_status, "None")
        /\ UNCHANGED <<location, velocity>>

\* update() that keeps accelerating until the speed exceeds the target
AccelerateToVelocity_update_overshoot ==
    LET below == calculate_velocity(node.vehicle) <= node.target_velocity
        new_status == IF below THEN RUNNING ELSE SUCCESS
        control == [node.control EXCEPT
                        !.throttle = IF below THEN node.throttle_value ELSE 0]
    IN  /\ node.cls = "AccelerateToVelocity"
        /\ node' = [node EXCEPT !.control = control]
        /\ applied' = apply_control(node.vehicle, control)
        /\ napply' = 1
        /\ Called("update", new_status, "None")
        /\ UNCHANGED <<location, velocity>>

AccelerateToVelocity_update ==
    LET below == calculate_velocity(node.vehicle) < node.target_velocity
        new_status == IF below THEN RUNNING ELSE SUCCESS
        control == [node.control EXCEPT
                        !.throttle = IF below THEN node.throttle_value ELSE 0]
    IN  /\ node.cls = "AccelerateToVelocity"
        /\ node' = [node EXCEPT !.control = control]
        /\ applied' = apply_control(node.vehicle, control)
        /\ napply' = 1
        /\ Called("update", new_status, "None")
        /\ UNCHANGED <<location, velocity>>

AccelerateToVelocity_terminate(new_status) ==
    /\ node.cls = "AccelerateToVelocity"
    /\ LogOnly("terminate", "None", new_status)

\* ------------------------------------------------------------ KeepVelocity
KeepVelocity_setup ==
    /\ node.cls = "KeepVelocity"
    /\ LogOnly("setup", "True", "None")

KeepVelocity_initialise ==
    /\ node.cls = "KeepVelocity"
    /\ LogOnly("initialise", "None", "None")

\* update() that reports SUCCESS once the target velocity is reached
KeepVelocity_update_terminal ==
    LET below == calculate_velocity(node.vehicle) < node.target_velocity
        new_status == IF below THEN RUNNING ELSE SUCCESS
        control == [node.control EXCEPT
                        !.throttle = IF below THEN FullThrottle ELSE 0]
    IN  /\ node.cls = "KeepVelocity"
        /\ node' = [node EXCEPT !.control = control]
        /\ applied' = apply_control(node.vehicle, control)
        /\ napply' = 1
        /\ Called("update", new_status, "None")
        /\ UNCHANGED <<location, velocity>>

KeepVelocity_update ==
    LET new_status == RUNNING
        control == [node.control EXCEPT
                        !.throttle =
                            IF calculate_velocity(node.vehicle) < node.target_velocity
                            THEN FullThrottle
                            ELSE 0]
    IN  /\ node.cls = "KeepVelocity"
        /\ node' = [node EXCEPT !.control = control]
        /\ applied' = apply_control(node.vehicle, control)
        /\ napply' = 1
        /\ Called("update", new_status, "None")
        /\ UNCHANGED <<location, velocity>>

\* terminate() that only logs, as the other two action nodes do
KeepVelocity_terminate_log_only(new_status) ==
    /\ node.cls = "KeepVelocity"
    /\ LogOnly("terminate", "None", new_status)

KeepVelocity_terminate(new_status) ==
    LET control == [node.control EXCEPT !.throttle = 0]
    IN  /\ node.cls = "KeepVelocity"
        /\ node' = [node EXCEPT !.control = control]
        /\ applied' = apply_control(node.vehicle, control)
        /\ napply' = 1
        /\ Called("terminate", "None", new_status)
        /\ UNCHANGED <<location, velocity>>

\* ------------------------------------------------------------- StopVehicle
StopVehicle_setup ==
    /\ node.cls = "StopVehicle"
    /\ LogOnly("setup", "True", "None")

StopVehicle_initialise ==
    /\ node.cls = "StopVehicle"
    /\ LogOnly("initialise", "None", "None")

\* update() that brakes down to exactly zero speed instead of EPSILON
StopVehicle_update_exact_zero ==
    LET moving == calculate_velocity(node.vehicle) > 0
        new_status == IF moving THEN RUNNING ELSE SUCCESS
        control == [node.control EXCEPT
                        !.brake = IF moving THEN node.brake_value ELSE 0]
    IN  /\ node.cls = "StopVehicle"
        /\ node' = [node EXCEPT !.control = control]
        /\ applied' = apply_control(node.vehicle, control)
        /\ napply' = 1
        /\ Called("update", new_status, "None")
        /\ UNCHANGED <<location, velocity>>

\* update() that re-issues the control only while it is braking
StopVehicle_update_skip_final ==
    LET moving == calculate_velocity(node.vehicle) > EPSILON
        new_status == IF moving THEN RUNNING ELSE SUCCESS
        control == [node.control EXCEPT
                        !.brake = IF moving THEN node.brake_value ELSE 0]
    IN  /\ node.cls = "StopVehicle"
        /\ node' = [node EXCEPT !.control = control]
        /\ applied' = IF moving THEN apply_control(node.vehicle, control) ELSE applied
        /\ napply' = IF moving THEN 1 ELSE 0
        /\ Called("update", new_status, "None")
        /\ UNCHANGED <<location, velocity>>

\* update() that edits the control the actor currently has instead of its own
StopVehicle_update_merge ==
    LET moving == calculate_velocity(node.vehicle) > EPSILON
        new_status == IF moving THEN RUNNING ELSE SUCCESS
        control == [applied[node.vehicle] EXCEPT
                        !.brake = IF moving THEN node.brake_value ELSE 0]
    IN  /\ node.cls = "StopVehicle"
        /\ node' = [node EXCEPT !.control = control]
        /\ applied' = apply_control(node.vehicle, control)
        /\ napply' = 1
        /\ Called("update", new_status, "None")
        /\ UNCHANGED <<location, velocity>>

StopVehicle_update ==
    LET moving == calculate_velocity(node.vehicle) > EPSILON
        new_status == IF moving THEN RUNNING ELSE SUCCESS
        control == [node.control EXCEPT
                        !.brake = IF moving THEN node.brake_value ELSE 0]
    IN  /\ node.cls = "StopVehicle"
        /\ node' = [node EXCEPT !.control = control]
        /\ applied' = apply_control(node.vehicle, control)
        /\ napply' = 1
        /\ Called("update", new_status, "None")
        /\ UNCHANGED <<location, velocity>>

StopVehicle_terminate(new_status) ==
    /\ node.cls = "StopVehicle"
    /\ LogOnly("terminate", "None", new_status)

\* -------------------------------------------------------------------- Next
Next ==
    \/ WorldTick
    \/ InTriggerRegion_setup
    \/ InTriggerRegion_initialise
    \/ InTriggerRegion_update
    \/ \E s \in Status : InTriggerRegion_terminate(s)
    \/ InTriggerDistanceToVehicle_setup
    \/ InTriggerDistanceToVehicle_initialise
    \/ InTriggerDistanceToVehicle_update
    \/ \E s \in Status : InTriggerDistanceToVehicle_terminate(s)
    \/ InTriggerDistanceToLocation_setup
    \/ InTriggerDistanceToLocation_initialise
    \/ InTriggerDistanceToLocation_update
    \/ \E s \in Status : InTriggerDistanceToLocation_terminate(s)
    \/ TriggerVelocity_setup
    \/ TriggerVelocity_initialise
    \/ TriggerVelocity_update
    \/ \E s \in Status : TriggerVelocity_terminate(s)
    \/ InTimeToArrivalToLocation_setup
    \/ InTimeToArrivalToLocation_initialise
    \/ InTimeToArrivalToLocation_update
    \/ \E s \in Status : InTimeToArrivalToLocation_terminate(s)
    \/ InTimeToArrivalToVehicle_setup
    \/ InTimeToArrivalToVehicle_initialise
    \/ InTimeToArrivalToVehicle_update
    \/ \E s \in Status : InTimeToArrivalToVehicle_terminate(s)
    \/ AccelerateToVelocity_setup
    \/ AccelerateToVelocity_initialise
    \/ AccelerateToVelocity_update
    \/ \E s \in Status : AccelerateToVelocity_terminate(s)
    \/ KeepVelocity_setup
    \/ KeepVelocity_initialise
    \/ KeepVelocity_update
    \/ \E s \in Status : KeepVelocity_terminate(s)
    \/ StopVehicle_setup
    \/ StopVehicle_initialise
    \/ StopVehicle_update
    \/ \E s \in Status : StopVehicle_terminate(s)

Spec == Init /\ [][Next]_vars

\* ------------------------------------------- acceleration from standstill
\* An AccelerateToVelocity node drives a vehicle that starts at speed 0 and
\* gains `step` per simulation step while the node is RUNNING.  The engine
\* ticks the node once per simulation step and drops it after SUCCESS.
Standstill == [x |-> 0, y |-> 0, z |-> 0]

RampInit ==
    /\ location \in [Vehicles -> Locations]
    /\ velocity = [v \in Vehicles |-> Standstill]
    /\ applied = [v \in Vehicles |-> VehicleControl]
    /\ node \in {AccelerateToVelocity_init(v, m, t) :
                    v \in Vehicles, m \in Magnitudes, t \in TargetVelocities}
    /\ op = "__init__"
    /\ ret = "None"
    /\ arg = "None"
    /\ before = applied
    /\ last = NoUpdate
    /\ napply = 0
    /\ ncontrol = 1
    /\ step \in 1..MaxStep

\* the one tick of this simulation step
RampTick ==
    /\ op # "update"
    /\ AccelerateToVelocity_update

\* the simulation step after a RUNNING tick: the vehicle has gained `step`
Accelerated ==
    /\ op = "update"
    /\ ret = RUNNING
    /\ velocity' = [velocity EXCEPT ![node.vehicle].y = @ + step]
    /\ op' = "none"
    /\ ret' = "None"
    /\ arg' = "None"
    /\ before' = applied
    /\ last' = NoUpdate
    /\ napply' = 0
    /\ UNCHANGED <<location, applied, node, ncontrol, step>>

RampNext ==
    \/ RampTick
    \/ Accelerated

RampSpec == RampInit /\ [][RampNext]_vars /\ WF_vars(RampNext)

\* ------------------------------------------ one action node after another
\* A sequence composition hands the actors from one action node to the next:
\* the next node is newly constructed, the actors keep the control the
\* previous node left on them.
ActionNodes ==
    {AccelerateToVelocity_init(v, m, t) :
        v \in Vehicles, m \in Magnitudes, t \in TargetVelocities}
    \cup {KeepVelocity_init(v, t) : v \in Vehicles, t \in TargetVelocities}
    \cup {StopVehicle_init(v, m) : v \in Vehicles, m \in Magnitudes}

HandoverInit ==
    /\ location = [v \in Vehicles |-> Pos(0)]
    /\ velocity = [v \in Vehicles |-> Standstill]
    /\ applied = [v \in Vehicles |-> VehicleControl]
    /\ node \in ActionNodes
    /\ op = "__init__"
    /\ ret = "None"
    /\ arg = "None"
    /\ before = applied
    /\ last = NoUpdate
    /\ napply = 0
    /\ ncontrol = 1
    /\ step = 0

Handover ==
    /\ node' \in ActionNodes
    /\ op' = "__init__"
    /\ ret' = "None"
    /\ arg' = "None"
    /\ before' = applied
    /\ last' = NoUpdate
    /\ napply' = 0
    /\ ncontrol' = 1
    /\ UNCHANGED <<location, velocity, applied, step>>

\* the simulation step of this composition: a vehicle changes its velocity
Drive ==
    /\ \E v \in Vehicles, w \in Velocities :
          velocity' = [velocity EXCEPT ![v] = w]
    /\ op' = "none"
    /\ ret' = "None"
    /\ arg' = "None"
    /\ before' = applied
    /\ last' = NoUpdate
    /\ napply' = 0
    /\ UNCHANGED <<location, applied, node, ncontrol, step>>

HandoverNext ==
    \/ Drive
    \/ Handover
    \/ AccelerateToVelocity_setup
    \/ AccelerateToVelocity_initialise
    \/ AccelerateToVelocity_update
    \/ \E s \in Status : AccelerateToVelocity_terminate(s)
    \/ KeepVelocity_setup
    \/ KeepVelocity_initialise
    \/ KeepVelocity_update
    \/ \E s \in Status : KeepVelocity_terminate(s)
    \/ StopVehicle_setup
    \/ StopVehicle_initialise
    \/ StopVehicle_update
    \/ \E s \in Status : StopVehicle_terminate(s)

HandoverSpec == HandoverInit /\ [][HandoverNext]_vars

\* ------------------------------------------------------------- properties
\* C1: after AccelerateToVelocity.terminate(status), for any status and any
\* prior state, the command last applied to the actor has throttle 0 and
\* brake 0.
C1_AccelerateTerminateNeutral ==
    (node.cls = "AccelerateToVelocity" /\ op = "terminate")
        => /\ applied[node.vehicle].throttle = 0
           /\ applied[node.vehicle].brake = 0

\* C2: after StopVehicle.terminate(status), for any status, the brake
\* commanded on the actor is 0.
C2_StopTerminateBrakeZero ==
    (node.cls = "StopVehicle" /\ op = "terminate")
        => applied[node.vehicle].brake = 0

\* C3: after KeepVelocity.terminate(status), in any state and for any status,
\* the node's command has throttle 0 and is the command last applied to the
\* actor.
C3_KeepTerminateThrottleZero ==
    (node.cls = "KeepVelocity" /\ op = "terminate")
        => /\ node.control.throttle = 0
           /\ applied[node.vehicle] = node.control

\* C3 witness: terminate(FAILURE) took the actor from full throttle to 0.
C3_Witness ==
    /\ node.cls = "KeepVelocity"
    /\ op = "terminate"
    /\ arg = FAILURE
    /\ before[node.vehicle].throttle = FullThrottle
    /\ applied[node.vehicle].throttle = 0

\* C4: update() of every leaf node returns RUNNING or SUCCESS, never FAILURE
\* or INVALID.
C4_UpdateRunningOrSuccess ==
    op = "update" => ret \in {RUNNING, SUCCESS}

\* C4 witness: an update() of the region trigger with the vehicle outside the
\* rectangle, the case a failing condition would report, returned RUNNING.
C4_Witness ==
    /\ op = "update"
    /\ node.cls = "InTriggerRegion"
    /\ location[node.vehicle].x > node.max_x
    /\ ret = RUNNING

\* C5: AccelerateToVelocity.update() with speed < target returns RUNNING and
\* applies throttle = throttle_value; with speed >= target it returns SUCCESS
\* and applies throttle = 0 on that same tick.
C5_AccelerateUpdate ==
    (node.cls = "AccelerateToVelocity" /\ op = "update")
        => IF calculate_velocity(node.vehicle) < node.target_velocity
           THEN /\ ret = RUNNING
                /\ applied[node.vehicle].throttle = node.throttle_value
           ELSE /\ ret = SUCCESS
                /\ applied[node.vehicle].throttle = 0

\* C5 witness: the SUCCESS tick of a node that was throttling on the tick
\* before.
C5_Witness ==
    /\ node.cls = "AccelerateToVelocity"
    /\ op = "update"
    /\ ret = SUCCESS
    /\ before[node.vehicle].throttle = node.throttle_value
    /\ applied[node.vehicle].throttle = 0

\* C6: StopVehicle.update() with speed > EPSILON returns RUNNING and applies
\* brake = brake_value; with speed <= EPSILON it returns SUCCESS and applies
\* brake = 0 on that same tick.
C6_StopUpdate ==
    (node.cls = "StopVehicle" /\ op = "update")
        => IF calculate_velocity(node.vehicle) > EPSILON
           THEN /\ ret = RUNNING
                /\ applied[node.vehicle].brake = node.brake_value
           ELSE /\ ret = SUCCESS
                /\ applied[node.vehicle].brake = 0

\* C6 witness: the SUCCESS tick at a speed of exactly EPSILON, of a node that
\* was braking on the tick before.
C6_Witness ==
    /\ node.cls = "StopVehicle"
    /\ op = "update"
    /\ ret = SUCCESS
    /\ calculate_velocity(node.vehicle) = EPSILON
    /\ before[node.vehicle].brake = node.brake_value
    /\ applied[node.vehicle].brake = 0

\* C7: KeepVelocity.update() returns RUNNING on every tick and applies
\* throttle 1.0 when speed < target, throttle 0.0 otherwise.
C7_KeepUpdate ==
    (node.cls = "KeepVelocity" /\ op = "update")
        => /\ ret = RUNNING
           /\ applied[node.vehicle].throttle =
                IF calculate_velocity(node.vehicle) < node.target_velocity
                THEN FullThrottle
                ELSE 0

\* C7 witness: a tick at or above the target, after a tick at full throttle,
\* that is still RUNNING.
C7_Witness ==
    /\ node.cls = "KeepVelocity"
    /\ op = "update"
    /\ calculate_velocity(node.vehicle) >= node.target_velocity
    /\ before[node.vehicle].throttle = FullThrottle
    /\ applied[node.vehicle].throttle = 0
    /\ ret = RUNNING

\* C8: TriggerVelocity.update() returns SUCCESS whenever the actor's speed is
\* >= the target velocity.
C8_TriggerVelocityAtOrAboveTarget ==
    (node.cls = "TriggerVelocity" /\ op = "update"
     /\ calculate_velocity(node.vehicle) >= node.target_velocity)
        => ret = SUCCESS

\* the rectangle of an InTriggerRegion node, bounds included
InRegion(self, loc) ==
    /\ self.min_x <= loc.x /\ loc.x <= self.max_x
    /\ self.min_y <= loc.y /\ loc.y <= self.max_y

\* C9: InTriggerRegion.update() returns SUCCESS iff min_x <= x <= max_x and
\* min_y <= y <= max_y (all four bounds inclusive), and RUNNING iff the
\* position is outside on either axis.
C9_RegionInclusive ==
    (node.cls = "InTriggerRegion" /\ op = "update")
        => /\ ret = SUCCESS <=> InRegion(node, location[node.vehicle])
           /\ ret = RUNNING <=> ~InRegion(node, location[node.vehicle])

\* C9 witness: a position exactly on min_x and on max_y that is SUCCESS.
C9_Witness ==
    /\ node.cls = "InTriggerRegion"
    /\ op = "update"
    /\ location[node.vehicle].x = node.min_x
    /\ location[node.vehicle].y = node.max_y
    /\ ret = SUCCESS

\* the same distance trigger with its two actors swapped
Swapped(self) ==
    InTriggerDistanceToVehicle_init(self.ego_vehicle, self.other_vehicle,
                                    self.distance)

\* C10: InTriggerDistanceToVehicle.update() returns SUCCESS iff the distance
\* between its two actors is <= the threshold (RUNNING otherwise), and the
\* status is the same with the two actors swapped.
C10_DistanceToVehicle ==
    (node.cls = "InTriggerDistanceToVehicle" /\ op = "update")
        => /\ ret = SUCCESS <=>
                calculate_distance(location[node.other_vehicle],
                                   location[node.ego_vehicle]) <= node.distance
           /\ ret = RUNNING <=>
                calculate_distance(location[node.other_vehicle],
                                   location[node.ego_vehicle]) > node.distance
           /\ ret = InTriggerDistanceToVehicle_new_status(Swapped(node))

\* C10 witness: two different actors exactly at the threshold distance apart,
\* SUCCESS.
C10_Witness ==
    /\ node.cls = "InTriggerDistanceToVehicle"
    /\ op = "update"
    /\ node.ego_vehicle # node.other_vehicle
    /\ node.distance > 0
    /\ calculate_distance(location[node.other_vehicle],
                          location[node.ego_vehicle]) = node.distance
    /\ ret = SUCCESS
\* C11 as stated: InTimeToArrivalToLocation.update() never returns SUCCESS
\* while the speed is <= EPSILON, for every distance > 0 and every time
\* budget.
C11_StoppedNeverArrives ==
    (node.cls = "InTimeToArrivalToLocation" /\ op = "update"
     /\ calculate_velocity(node.vehicle) <= EPSILON
     /\ calculate_distance(location[node.vehicle], node.target_location) > 0)
        => ret = RUNNING

\* C11 amended: InTimeToArrivalToLocation.update() returns RUNNING while the
\* speed is <= EPSILON, for every distance > 0 and every time budget below
\* max_time_to_arrival.
C11_StoppedRunningBelowSentinel ==
    (node.cls = "InTimeToArrivalToLocation" /\ op = "update"
     /\ calculate_velocity(node.vehicle) <= EPSILON
     /\ calculate_distance(location[node.vehicle], node.target_location) > 0
     /\ node.time < max_time_to_arrival)
        => ret = RUNNING

\* C11 witness: at a speed of exactly EPSILON and a distance that this speed
\* would cover within the budget, update() is RUNNING.
C11_Witness ==
    /\ node.cls = "InTimeToArrivalToLocation"
    /\ op = "update"
    /\ calculate_velocity(node.vehicle) = EPSILON
    /\ calculate_distance(location[node.vehicle], node.target_location) = 5
    /\ node.time = 5
    /\ ret = RUNNING

\* C12 as stated: InTimeToArrivalToVehicle.update() returns RUNNING on every
\* tick where the ego actor is not faster than the other actor, for every
\* distance and every time budget.
C12_NotFasterRunning ==
    (node.cls = "InTimeToArrivalToVehicle" /\ op = "update"
     /\ calculate_velocity(node.ego_vehicle)
            <= calculate_velocity(node.other_vehicle))
        => ret = RUNNING

\* C12 amended: InTimeToArrivalToVehicle.update() returns RUNNING on every
\* tick where the ego actor is not faster than the other actor, for every
\* distance and every time budget below max_time_to_arrival.
C12_NotFasterRunningBelowSentinel ==
    (node.cls = "InTimeToArrivalToVehicle" /\ op = "update"
     /\ calculate_velocity(node.ego_vehicle)
            <= calculate_velocity(node.other_vehicle)
     /\ node.time < max_time_to_arrival)
        => ret = RUNNING

\* C12 witness: the ego actor is strictly slower than the other actor, at the
\* same place, and update() is RUNNING.
C12_Witness ==
    /\ node.cls = "InTimeToArrivalToVehicle"
    /\ op = "update"
    /\ calculate_velocity(node.ego_vehicle)
            < calculate_velocity(node.other_vehicle)
    /\ location[node.ego_vehicle] = location[node.other_vehicle]
    /\ node.time = 25
    /\ ret = RUNNING

\* C13: an update() that follows an earlier update() with the actor state
\* unchanged in between (whatever setup, initialise or terminate calls came
\* between the two) returns the same status and leaves the same commands
\* applied.
C13_UpdateIdempotent ==
    [][(op' = "update" /\ last.ret # "None")
          => (ret' = last.ret /\ applied' = last.applied)]_vars

\* C13 witness: KeepVelocity was ticked, terminated (throttle back to 0) and
\* ticked again in the same actor state, and full throttle is applied again.
C13_Witness ==
    /\ node.cls = "KeepVelocity"
    /\ op = "update"
    /\ last.again
    /\ before[node.vehicle].throttle = 0
    /\ applied[node.vehicle].throttle = FullThrottle

\* C14: while the node is a condition node, no step (setup, initialise,
\* update, terminate) applies a control command or changes the node and its
\* parameters; the commanded throttle and brake stay as they were.
C14_ConditionsSideEffectFree ==
    [][node.cls \in Conditions
          => (applied' = applied /\ node' = node /\ napply' = 0)]_vars

\* C14 witness: a time-to-arrival condition whose update() used the sentinel
\* and whose parameters and actors' commands are as constructed.
C14_Witness ==
    /\ node.cls = "InTimeToArrivalToLocation"
    /\ op = "update"
    /\ calculate_velocity(node.vehicle) <= EPSILON
    /\ node.time = 5
    /\ napply = 0
    /\ applied = [v \in Vehicles |-> VehicleControl]

\* C15: every update() of an action node applies the node's one command to
\* the actor exactly once, after setting this tick's value, on RUNNING and on
\* SUCCESS ticks alike; the node creates its command object once, at
\* construction.
C15_UpdateAppliesOnce ==
    node.cls \in Actions
        => /\ ncontrol = 1
           /\ op = "update"
                => /\ napply = 1
                   /\ applied[node.vehicle] = node.control

\* C15 witness: the SUCCESS tick of StopVehicle, after a braking tick, applied
\* the command once with the brake released.
C15_Witness ==
    /\ node.cls = "StopVehicle"
    /\ op = "update"
    /\ ret = SUCCESS
    /\ before[node.vehicle].brake = node.brake_value
    /\ napply = 1
    /\ applied[node.vehicle].brake = 0

\* C16: TriggerVelocity.update() returns SUCCESS iff speed - target_velocity
\* < EPSILON, and RUNNING otherwise.
C16_TriggerVelocityPredicate ==
    (node.cls = "TriggerVelocity" /\ op = "update")
        => /\ ret = SUCCESS <=>
                calculate_velocity(node.vehicle) - node.target_velocity < EPSILON
           /\ ret = RUNNING <=>
                calculate_velocity(node.vehicle) - node.target_velocity >= EPSILON

\* C16 witness: the speed exceeds the target by exactly EPSILON and update()
\* is RUNNING.
C16_Witness ==
    /\ node.cls = "TriggerVelocity"
    /\ op = "update"
    /\ calculate_velocity(node.vehicle) - node.target_velocity = EPSILON
    /\ ret = RUNNING

\* C17: when the ego actor is faster than the other actor,
\* InTimeToArrivalToVehicle.update() returns SUCCESS iff
\* 2 * distance / (speed(ego) - speed(other)) <= time, and RUNNING otherwise.
C17_ClosingTime ==
    (node.cls = "InTimeToArrivalToVehicle" /\ op = "update"
     /\ calculate_velocity(node.ego_vehicle)
            > calculate_velocity(node.other_vehicle))
        => LET distance == calculate_distance(location[node.ego_vehicle],
                                              location[node.other_vehicle])
               closing == calculate_velocity(node.ego_vehicle)
                          - calculate_velocity(node.other_vehicle)
           IN  /\ ret = SUCCESS <=> 2 * distance <= node.time * closing
               /\ ret = RUNNING <=> 2 * distance > node.time * closing

\* C17 witness: the example of the specification at 1/10000 of its lengths:
\* distance 10, ego speed 1, other speed 0, closing time 20, budget 25,
\* SUCCESS.
C17_Witness ==
    /\ node.cls = "InTimeToArrivalToVehicle"
    /\ op = "update"
    /\ calculate_distance(location[node.ego_vehicle],
                          location[node.other_vehicle]) = 10
    /\ calculate_velocity(node.ego_vehicle) = 1
    /\ calculate_velocity(node.other_vehicle) = 0
    /\ node.time = 25
    /\ ret = SUCCESS

\* the magnitude an action node was constructed with lies in [0, 1]
MagnitudeInRange(self) ==
    /\ self.cls = "AccelerateToVelocity"
          => (0 <= self.throttle_value /\ self.throttle_value <= FullThrottle)
    /\ self.cls = "StopVehicle"
          => (0 <= self.brake_value /\ self.brake_value <= FullThrottle)

\* the control commanded on the node's actor has throttle and brake in [0, 1]
CommandInRange ==
    /\ 0 <= applied[node.vehicle].throttle
    /\ applied[node.vehicle].throttle <= FullThrottle
    /\ 0 <= applied[node.vehicle].brake
    /\ applied[node.vehicle].brake <= FullThrottle

\* C19 as stated: every control an action node applies has throttle in [0,1]
\* and brake in [0,1], whatever magnitude the node was constructed with.
C19_CommandAlwaysInRange ==
    node.cls \in Actions => CommandInRange

\* C19 amended: every control an action node applies has throttle in [0,1]
\* and brake in [0,1], provided the throttle or brake magnitude the node was
\* constructed with is in [0,1].
C19_CommandInRangeForMagnitudeInRange ==
    (node.cls \in Actions /\ MagnitudeInRange(node)) => CommandInRange

\* C19 witness: AccelerateToVelocity built with throttle 0.5 has applied it.
C19_Witness ==
    /\ node.cls = "AccelerateToVelocity"
    /\ op = "update"
    /\ node.throttle_value = 500
    /\ applied[node.vehicle].throttle = 500
\* C18: with the speed starting at 0 and growing by a fixed positive step per
\* RUNNING tick, AccelerateToVelocity eventually returns SUCCESS, and when it
\* does the speed has reached the target on this tick and not on an earlier
\* one (every earlier tick was below the target, hence RUNNING).
C18_AccelerateEventuallySucceeds ==
    /\ <>(op = "update" /\ ret = SUCCESS)
    /\ []((op = "update" /\ ret = SUCCESS)
            => /\ velocity[node.vehicle].y >= node.target_velocity
               /\ \/ velocity[node.vehicle].y = 0
                  \/ velocity[node.vehicle].y - step < node.target_velocity)

\* C18 witness: SUCCESS on the tick the speed first passes the target, which
\* the steps overshoot (steps of 2 toward 5), right after a throttling tick.
C18_Witness ==
    /\ op = "update"
    /\ ret = SUCCESS
    /\ step = 2
    /\ node.target_velocity = 5
    /\ velocity[node.vehicle].y = 6
    /\ before[node.vehicle].throttle = node.throttle_value
    /\ applied[node.vehicle].throttle = 0

\* C20: StopVehicle never writes the throttle of its command and
\* AccelerateToVelocity and KeepVelocity never write the brake: the field
\* stays at its default 0, so every command StopVehicle applies overwrites
\* the commanded throttle with 0 and every command an accelerate or keep node
\* applies overwrites the commanded brake with 0.
C20_UnwrittenFieldStaysDefault ==
    /\ node.cls = "StopVehicle"
          => /\ node.control.throttle = 0
             /\ napply = 1 => applied[node.vehicle].throttle = 0
    /\ node.cls \in {"AccelerateToVelocity", "KeepVelocity"}
          => /\ node.control.brake = 0
             /\ napply = 1 => applied[node.vehicle].brake = 0

\* C20 witness: a braking StopVehicle tick on an actor that an earlier node
\* had left under throttle.
C20_Witness ==
    /\ node.cls = "StopVehicle"
    /\ op = "update"
    /\ ret = RUNNING
    /\ before[node.vehicle].throttle > 0
    /\ applied[node.vehicle].throttle = 0
    /\ applied[node.vehicle].brake = node.brake_value
====
